---- MODULE Spec2Model ----
(***************************************************************************)
(* REMEDI editors (src/src/editors.py): the apply_direction hook, the      *)
(* EditedModel wrapper that scopes it around one forward/generate call,    *)
(* the Editor.fit training loop with early stopping, Editor.evaluate, the  *)
(* RandomEditor and LinearEditor classes and the saving and loading of     *)
(* their state; and the scripts of src/scripts that train and use editors. *)
(*                                                                         *)
(* Tensors are modelled with one hidden coordinate per position: the edit  *)
(* of apply_direction is elementwise in the hidden dimension, so a layer   *)
(* output is a function  row -> position -> Int  and a direction is one    *)
(* Int per batch row.  Positions and rows are 0-based as in the source.    *)
(* The buffers of the RandomEditor are modelled by their shapes and by a   *)
(* token for their content.                                                *)
(***************************************************************************)
EXTENDS Integers, Sequences, FiniteSets, TLC

(* ------------------------------- bounds -------------------------------- *)
\* longest prompt (sequence dimension of the first forward pass)
MaxSeq == 3
\* largest max_new_tokens handed to generate
MaxNewTokens == 2
\* largest max_epochs handed to fit
MaxEpochs == 4
\* largest patience handed to fit
MaxPatience == 2
\* batches of the train loader and of the val loader
NumTrainBatches == 2
NumValBatches == 1
\* the loss of one batch ranges over 1..MaxLoss
MaxLoss == 3
\* hidden size of the base model (model_utils.determine_hidden_size)
HiddenSize == 2
\* deepest nesting of apply_direction scopes a caller builds
MaxDepth == 2
\* largest dataset handed to evaluate, and largest batch_size
MaxSamples == 3
MaxBatchSize == 2

\* batch rows of one call
Rows == {0, 1}
\* step sizes (alpha) a caller passes
Alphas == {1, 2}
\* batches of context.hiddens.<layer>.attribute, one value per row
Attributes == {[b \in Rows |-> 1 + b], [b \in Rows |-> 2]}
\* values an editor parameter takes
ParamVals == {0, 1}
\* the LinearEditor's parameter tensors (nn.Linear)
ParamNames == {"weight", "bias"}
\* parameters of the wrapped base model
BaseParams == {"wte", "h"}
\* indices of the base model's layers, and the layers a caller asks for
ModelLayers == {0}
RequestedLayers == {0, 1}

VARIABLES
    pc,             \* position of the running call: "idle", "body", "exit", ...
    heap,           \* tensor storage of the editor's parameters: name -> value
    requires_grad,  \* requires_grad flag of each base-model parameter
    hooks,          \* forward hooks installed on the layer (baukit Trace), in order
    trace,          \* apply_direction._trace: 0 for None, else the hook's id
    call,           \* arguments of the running _run_edited_model call
    exc,            \* an exception is propagating out of the with-body
    unedited,       \* the layer's raw output on the last forward pass
    output,         \* what the hooked layer returned on the last forward pass
    passLog,        \* forward passes of the running call: [seq, edited]
    outcome,        \* how the last call ended: "none", "returned", "raised"
    fit,            \* locals of the running Editor.fit call
    stopper,        \* the EarlyStopping object of the running fit
    obs,            \* what the running fit has done so far (history)
    base,           \* tensor storage of the base model's parameters: name -> value
    editor,         \* the editor object: its class and its registered buffers
    rc,             \* RandomEditor.fit's runningstats.Covariance: batches added
    rng,            \* state of torch's global random generator
    files,          \* weights files on disk: path -> saved state
    ev,             \* locals of the running Editor.evaluate call
    nest,           \* apply_direction objects a caller has entered, innermost last
    script          \* state of the running script (scripts/*.py)

hookVars == <<hooks, trace, call, exc, unedited, output, passLog, outcome>>
fitVars == <<fit, stopper, obs>>
extVars == <<editor, rc, rng, files, ev, nest, script>>
vars == <<pc, heap, requires_grad, hooks, trace, call, exc, unedited, output,
          passLog, outcome, fit, stopper, obs, base, editor, rc, rng, files, ev,
          nest, script>>

(* ----------------------------- tensors --------------------------------- *)
\* token ranges [i, j) that lie in a sequence of n tokens
TokenRanges(n) == {r \in (0..n) \X (0..n) : r[1] < r[2]}

\* the layer's raw output tuple (hidden states, rest) on the k-th forward pass
\* of a call, n positions long: the model is a function of its inputs
RawOutput(k, n) ==
    <<[b \in Rows |-> [p \in 0..(n - 1) |-> k + 3 * b + p]], k>>

\* output[0].shape[1]
SeqDim(out) == Cardinality(DOMAIN out[1][0])

\* positions selected by the Python slice i:j of a dimension of size n (i, j >= 0)
Slice(i, j, n) == {p \in 0..(n - 1) : i <= p /\ p < j}

NoCall == [generate |-> FALSE, promptLen |-> 0, directions |-> [b \in Rows |-> 0],
           token_ranges |-> [b \in Rows |-> <<0, 0>>], alpha |-> 0, maxNew |-> 0]
NoTensor == <<[b \in Rows |-> <<>>], 0>>

(* --------------------------- apply_direction --------------------------- *)
\* faulty variant of IsDecodeStep: the guard tests for an empty sequence
IsDecodeStep_Empty(out) == SeqDim(out) = 0

\* the guard of edit_output: a single-position output is returned as it is
IsDecodeStep(out) == SeqDim(out) = 1

\* faulty variant of EditRow: the slice takes position j as well
EditRow_Inclusive(h, t, bi) ==
    LET i == h.token_ranges[bi][1]
        j == h.token_ranges[bi][2]
    IN  [t EXCEPT ![bi] = [p \in DOMAIN t[bi] |->
            IF i <= p /\ p <= j THEN t[bi][p] + h.alpha * h.directions[bi]
                                ELSE t[bi][p]]]

\* faulty variant of EditRow: the direction is added without the step size
EditRow_NoAlpha(h, t, bi) ==
    LET i == h.token_ranges[bi][1]
        j == h.token_ranges[bi][2]
    IN  [t EXCEPT ![bi] = [p \in DOMAIN t[bi] |->
            IF i <= p /\ p < j THEN t[bi][p] + h.directions[bi]
                               ELSE t[bi][p]]]

\* one iteration of the loop over token_ranges: row bi gets alpha * directions[bi]
\* added on its slice i:j
EditRow(h, t, bi) ==
    LET i == h.token_ranges[bi][1]
        j == h.token_ranges[bi][2]
        n == Cardinality(DOMAIN t[bi])
    IN  [t EXCEPT ![bi] = [p \in DOMAIN t[bi] |->
            IF p \in Slice(i, j, n) THEN t[bi][p] + h.alpha * h.directions[bi]
                                    ELSE t[bi][p]]]

RECURSIVE EditRows(_, _, _)
\* the loop "for bi, (i, j) in enumerate(token_ranges)" from row bi on
EditRows(h, t, bi) ==
    IF bi \notin Rows THEN t ELSE EditRows(h, EditRow(h, t, bi), bi + 1)

\* the hook function installed by __enter__
edit_output(h, out) ==
    IF IsDecodeStep(out) THEN out
    ELSE <<EditRows(h, out[1], 0), out[2]>>

RECURSIVE RunHooks(_, _)
\* the layer's forward hooks, applied in registration order
RunHooks(hs, out) ==
    IF hs = <<>> THEN out ELSE RunHooks(Tail(hs), edit_output(Head(hs), out))

\* LinearEditor.__call__: the direction for one attribute representation
LinearEditor_call(attribute) ==
    [b \in Rows |-> heap["weight"] * attribute[b] + heap["bias"]]

(* ----------------------------- EditedModel ----------------------------- *)
\* model_utils.determine_layer_paths(model, layers=[layer]) finds the layer
LayerExists(layer) == layer \in ModelLayers

\* faulty variant of EnterHooks: the hook is registered before the layer is
\* looked up
EnterHooks_InstallFirst(layer, h) == Append(hooks, h)

\* the layer's hooks after apply_direction.__enter__: the layer path is
\* determined first and a missing layer raises there; only then is the
\* Trace with edit_output registered
EnterHooks(layer, h) == IF LayerExists(layer) THEN Append(hooks, h) ELSE hooks

\* _run_edited_model up to and including apply_direction.__enter__: the
\* directions are computed by the editor and the hook is installed; when
\* __enter__ raises, the with-body and __exit__ do not run
RunEditedModel(layer, generate, n, ranges, attribute, alpha, maxNew) ==
    /\ pc = "idle"
    /\ LET directions == LinearEditor_call(attribute)
           id == Len(hooks) + 1
       IN  /\ hooks' = EnterHooks(layer, [id |-> id, directions |-> directions,
                                          token_ranges |-> ranges,
                                          alpha |-> alpha])
           /\ IF LayerExists(layer)
              THEN /\ call' = [generate |-> generate, promptLen |-> n,
                               directions |-> directions,
                               token_ranges |-> ranges, alpha |-> alpha,
                               maxNew |-> maxNew]
                   /\ trace' = id
                   /\ pc' = "body"
                   /\ outcome' = "none"
              ELSE /\ call' = NoCall
                   /\ trace' = trace
                   /\ pc' = "idle"
                   /\ outcome' = "config_error"
    /\ exc' = FALSE
    /\ passLog' = <<>>
    /\ unedited' = NoTensor
    /\ output' = NoTensor
    /\ UNCHANGED <<base, extVars, heap, requires_grad, fitVars>>

\* one forward pass of the model through the hooked layer, n positions long
LayerForward(n) ==
    LET raw == RawOutput(Len(passLog) + 1, n)
    IN  /\ unedited' = raw
        /\ output' = RunHooks(hooks, raw)
        /\ passLog' = Append(passLog,
              [seq |-> n, edited |-> hooks # <<>> /\ ~IsDecodeStep(raw)])

\* outputs = model(**inputs): one pass over the whole prompt
ModelForward ==
    /\ pc = "body"
    /\ ~call.generate
    /\ LayerForward(call.promptLen)
    /\ pc' = "exit"
    /\ UNCHANGED <<base, extVars, heap, requires_grad, hooks, trace, call, exc, outcome, fitVars>>

\* sequence dimension of the k-th forward pass of generate (key/value cache:
\* the prompt first, then one new token at a time)
GenerateSeqDim(k) == IF k = 1 THEN call.promptLen ELSE 1

\* model.generate: the next forward pass
GeneratePass ==
    /\ pc = "body"
    /\ call.generate
    /\ Len(passLog) < call.maxNew
    /\ LayerForward(GenerateSeqDim(Len(passLog) + 1))
    /\ UNCHANGED <<base, extVars, pc, heap, requires_grad, hooks, trace, call, exc, outcome,
                   fitVars>>

\* model.generate returns: max_new_tokens reached or every row ended
GenerateDone ==
    /\ pc = "body"
    /\ call.generate
    /\ Len(passLog) >= 1
    /\ pc' = "exit"
    /\ UNCHANGED <<base, extVars, heap, requires_grad, hookVars, fitVars>>

\* the model call in the with-body raises
ModelRaises ==
    /\ pc = "body"
    /\ pc' = "exit"
    /\ exc' = TRUE
    /\ UNCHANGED <<base, extVars, heap, requires_grad, hooks, trace, call, unedited, output,
                   passLog, outcome, fitVars>>

\* faulty variant of ExitScope: the trace is closed on the normal way out only
ExitScope_LeakOnError ==
    /\ pc = "exit"
    /\ trace # 0
    /\ hooks' = IF exc THEN hooks ELSE SelectSeq(hooks, LAMBDA h : h.id # trace)
    /\ trace' = 0
    /\ outcome' = IF exc THEN "raised" ELSE "returned"
    /\ exc' = FALSE
    /\ pc' = "idle"
    /\ call' = NoCall
    /\ unedited' = NoTensor
    /\ output' = NoTensor
    /\ passLog' = <<>>
    /\ UNCHANGED <<base, extVars, heap, requires_grad, fit, stopper, obs>>

\* apply_direction.__exit__: close the trace; the with statement runs it on
\* the normal and on the exceptional way out
ExitScope ==
    /\ pc = "exit"
    /\ trace # 0
    /\ hooks' = SelectSeq(hooks, LAMBDA h : h.id # trace)
    /\ trace' = 0
    /\ outcome' = IF exc THEN "raised" ELSE "returned"
    /\ exc' = FALSE
    /\ pc' = "idle"
    \* the call's locals go out of scope with the return
    /\ call' = NoCall
    /\ unedited' = NoTensor
    /\ output' = NoTensor
    /\ passLog' = <<>>
    /\ UNCHANGED <<base, extVars, heap, requires_grad, fitVars>>

(* ------------------------------ Editor.fit ----------------------------- *)
\* Losses are kept in units of 1/NumValBatches: val_loss holds the sum over the
\* val batches, which orders epochs as the mean val_loss / len(val_loader) does.

\* float("inf"), the stopper's first best: above every validation loss
Infinity == MaxLoss * NumValBatches + 1

\* Module.state_dict(): each entry is the parameter's own tensor, so it names
\* the storage cell of the live parameter and holds no copy of its value
state_dict == [n \in ParamNames |-> n]

\* Module.load_state_dict(sd): every parameter is overwritten, in place, with
\* the present content of the tensor sd holds for it
load_state_dict(sd) == [n \in ParamNames |-> heap[sd[n]]]

\* training_utils.EarlyStopping(patience=patience)
EarlyStopping_init(patience) ==
    [patience |-> patience, best |-> Infinity, num_bad |-> 0]

\* EarlyStopping.__call__: the stopper after it has seen value
EarlyStopping_call(s, value) ==
    IF value < s.best THEN [s EXCEPT !.best = value, !.num_bad = 0]
                      ELSE [s EXCEPT !.num_bad = @ + 1]

\* what EarlyStopping.__call__ returns: patience is exhausted
EarlyStopping_stop(s) == s.num_bad >= s.patience

\* EarlyStopping.improved: the last value seen was a new best
EarlyStopping_improved(s) == s.num_bad = 0

\* "for parameter in self.mt.model.parameters(): parameter.requires_grad_(True)"
SetRequiresGrad == [p \in BaseParams |-> TRUE]

\* faulty variant of DoesBackprop: the dry run is not exempted
DoesBackprop_Always(epoch) == epoch >= 0

\* "if epoch > 0": the batch is followed by loss.backward() and optimizer.step()
DoesBackprop(epoch) == epoch > 0

\* faulty variant of EpochRange: one epoch too many
EpochRange_OneMore(max_epochs) == 0..(max_epochs + 1)

\* "for epoch in range(max_epochs + 1)"
EpochRange(max_epochs) == 0..max_epochs

\* faulty variant of ShouldBreak: the stopper's answer is ignored
ShouldBreak_Never(s) == FALSE

\* "if stopper(val_loss): break", on the stopper that has seen val_loss
ShouldBreak(s) == EarlyStopping_stop(s)

\* "elif stopper.improved: best = self.state_dict()"
NextBest(s, best) == IF EarlyStopping_improved(s) THEN state_dict ELSE best

NoFit == [max_epochs |-> 0, epoch |-> 0, batch |-> 0, grad |-> "none",
          val_loss |-> 0, best |-> state_dict]
NoStopper == EarlyStopping_init(0)
NoObs == [init |-> [n \in ParamNames |-> 0], minLoss |-> Infinity,
          minParams |-> [n \in ParamNames |-> 0], badRun |-> 0, steps |-> 0,
          backwards |-> 0, epochs |-> 0, how |-> "none", restored |-> FALSE]

\* fit up to the first epoch: the base model's flags, the optimizer, the
\* stopper and the first best
FitBegin(max_epochs, patience) ==
    /\ pc = "idle"
    /\ requires_grad' = SetRequiresGrad
    /\ stopper' = EarlyStopping_init(patience)
    /\ fit' = [max_epochs |-> max_epochs, epoch |-> 0, batch |-> 0,
               grad |-> "none", val_loss |-> 0, best |-> state_dict]
    /\ obs' = [NoObs EXCEPT !.init = heap, !.minParams = heap, !.epochs = 1]
    /\ pc' = "train"
    /\ outcome' = "none"
    /\ UNCHANGED <<base, extVars, heap, hooks, trace, call, exc, unedited, output, passLog>>

\* one train batch: optimizer.zero_grad() and editing_loss (whose EditedModel
\* call has installed and released its hook by the time it returns)
TrainLoss ==
    /\ pc = "train"
    /\ fit.batch < NumTrainBatches
    /\ IF DoesBackprop(fit.epoch)
       THEN /\ fit' = [fit EXCEPT !.grad = "zero"]
            /\ pc' = "backward"
       ELSE /\ fit' = [fit EXCEPT !.grad = "zero", !.batch = @ + 1]
            /\ pc' = "train"
    /\ UNCHANGED <<base, extVars, heap, requires_grad, hookVars, stopper, obs>>

\* loss.backward()
Backward ==
    /\ pc = "backward"
    /\ fit' = [fit EXCEPT !.grad = "set"]
    /\ obs' = [obs EXCEPT !.backwards = @ + 1]
    /\ pc' = "step"
    /\ UNCHANGED <<base, extVars, heap, requires_grad, hookVars, stopper>>

\* faulty variant of OptimizerParams: the base model's parameters are handed
\* to the optimizer as well
OptimizerParams_WithBase == ParamNames \cup BaseParams

\* "optim.AdamW(self.parameters(), lr=lr)": the parameters the optimizer owns
\* are those registered on the editor module; self.mt is no submodule
OptimizerParams == ParamNames

\* what optimizer.step() does to the base model's storage b: a tensor is
\* updated when the optimizer owns it and backward has left it a gradient
AdamW_step(b) ==
    [p \in BaseParams |->
        IF p \in OptimizerParams /\ requires_grad[p] /\ fit.grad = "set"
        THEN b[p] + 1 ELSE b[p]]

\* optimizer.step(): AdamW updates, in place, the parameters that have a gradient
OptimizerStep(new) ==
    /\ pc = "step"
    /\ heap' = IF fit.grad = "set" THEN new ELSE heap
    /\ obs' = [obs EXCEPT !.steps = @ + 1]
    /\ fit' = [fit EXCEPT !.batch = @ + 1]
    /\ pc' = "train"
    /\ base' = AdamW_step(base)
    /\ UNCHANGED <<extVars, requires_grad, hookVars, stopper>>

\* optimizer.step() with whatever update the gradients give
OptimizerStepAny ==
    /\ pc = "step"
    /\ \E new \in [ParamNames -> ParamVals] : OptimizerStep(new)

\* the train loader is exhausted: self.eval(), val_loss = 0.0
BeginValidation ==
    /\ pc = "train"
    /\ fit.batch = NumTrainBatches
    /\ fit' = [fit EXCEPT !.batch = 0, !.val_loss = 0]
    /\ pc' = "val"
    /\ UNCHANGED <<base, extVars, heap, requires_grad, hookVars, stopper, obs>>

\* one val batch under torch.inference_mode(): val_loss += loss.item()
ValBatch(loss) ==
    /\ pc = "val"
    /\ fit.batch < NumValBatches
    /\ fit' = [fit EXCEPT !.batch = @ + 1, !.val_loss = @ + loss]
    /\ UNCHANGED <<base, extVars, pc, heap, requires_grad, hookVars, stopper, obs>>

\* the end of an epoch: the stopper sees val_loss; break, or keep the new
\* best and go on to the next epoch of the range
EpochEnd ==
    /\ pc = "val"
    /\ fit.batch = NumValBatches
    /\ LET s == EarlyStopping_call(stopper, fit.val_loss)
           better == fit.val_loss < obs.minLoss
           seen == [obs EXCEPT
                      !.minLoss = IF better THEN fit.val_loss ELSE @,
                      !.minParams = IF better THEN heap ELSE @,
                      !.badRun = IF better THEN 0 ELSE @ + 1]
       IN  /\ stopper' = s
           /\ IF ShouldBreak(s)
              THEN /\ fit' = fit
                   /\ obs' = [seen EXCEPT !.how = "early"]
                   /\ pc' = "restore"
              ELSE IF fit.epoch + 1 \in EpochRange(fit.max_epochs)
              THEN /\ fit' = [fit EXCEPT !.best = NextBest(s, @), !.epoch = @ + 1,
                                         !.batch = 0]
                   /\ obs' = [seen EXCEPT !.epochs = @ + 1, !.steps = 0,
                                          !.backwards = 0]
                   /\ pc' = "train"
              ELSE /\ fit' = [fit EXCEPT !.best = NextBest(s, @)]
                   /\ obs' = [seen EXCEPT !.how = "max"]
                   /\ pc' = "restore"
    /\ UNCHANGED <<base, extVars, heap, requires_grad, hookVars>>

\* self.load_state_dict(best)
LoadBest ==
    /\ pc = "restore"
    /\ heap' = load_state_dict(fit.best)
    /\ obs' = [obs EXCEPT !.restored = TRUE]
    /\ pc' = "fit_return"
    /\ UNCHANGED <<base, extVars, requires_grad, hookVars, fit, stopper>>

\* return EditorTrainingRun(dataset=dataset): the locals go out of scope
FitReturn ==
    /\ pc = "fit_return"
    /\ pc' = "idle"
    /\ outcome' = "fitted"
    /\ fit' = NoFit
    /\ stopper' = NoStopper
    /\ obs' = NoObs
    /\ UNCHANGED <<base, extVars, heap, requires_grad, hooks, trace, call, exc, unedited,
                   output, passLog>>

(* ----------------------------- RandomEditor ---------------------------- *)
\* A buffer is a record [shape, val]: its shape as torch.Size and a token for
\* its content.  The statistics of a set of batches are the tokens
\* <<"mean", batches>> and <<"cov", batches>>; other contents are <<name, {}>>.
Tensor(shape, val) == [shape |-> shape, val |-> val]
\* Python's None where a tensor may be passed
None == Tensor(<<>>, <<"None", {}>>)

\* torch.zeros(hidden_size), the default mean
DefaultMean == Tensor(<<HiddenSize>>, <<"zeros", {}>>)
\* torch.ones(hidden_size), the default covariance
DefaultCovariance == Tensor(<<HiddenSize>>, <<"ones", {}>>)
\* a mean vector and a covariance matrix a caller passes to the constructor
GivenMean == Tensor(<<HiddenSize>>, <<"given", {}>>)
GivenCovariance == Tensor(<<HiddenSize, HiddenSize>>, <<"given", {}>>)

\* LinearEditor(mt=mt, layer=layer): no buffers, the parameters are in heap
LinearEditor_init ==
    [kind |-> "linear", defaults |-> FALSE, mean |-> None, covariance |-> None]

\* RandomEditor(mt=mt, layer=layer, mean=mean, covariance=covariance)
RandomEditor_init(mean, covariance) ==
    [kind |-> "random", defaults |-> (mean = None /\ covariance = None),
     mean |-> IF mean = None THEN DefaultMean ELSE mean,
     covariance |-> IF covariance = None THEN DefaultCovariance ELSE covariance]

\* rc.mean() and rc.covariance() of runningstats.Covariance after the batches
\* in added: a vector of length H and an H x H matrix
Covariance_mean(added) == Tensor(<<HiddenSize>>, <<"mean", added>>)
Covariance_covariance(added) ==
    Tensor(<<HiddenSize, HiddenSize>>, <<"cov", added>>)

RECURSIVE StripOnes(_)
\* a shape without its leading dimensions of size 1
StripOnes(shape) ==
    IF shape # <<>> /\ Head(shape) = 1 THEN StripOnes(Tail(shape)) ELSE shape

\* a value of shape src can be copied into a tensor of shape dst: aligned at
\* the last dimension, each size of src is 1 or that of dst
Broadcastable(src, dst) ==
    /\ Len(src) <= Len(dst)
    /\ \A i \in 1..Len(src) :
          src[Len(src) - i + 1] \in {1, dst[Len(dst) - i + 1]}

\* "buffer[:] = value" does not raise
SetItemOk(buffer, value) == Broadcastable(StripOnes(value.shape), buffer.shape)

\* the buffer after "buffer[:] = value": same tensor, same shape, new content
SetItem(buffer, value) == [buffer EXCEPT !.val = value.val]

\* RandomEditor.fit up to the loop: the split, the devices, rc = Covariance()
RandomFitBegin ==
    /\ pc = "idle"
    /\ editor.kind = "random"
    /\ rc' = {}
    /\ fit' = [NoFit EXCEPT !.batch = 0]
    /\ pc' = "rfit"
    /\ outcome' = "none"
    /\ UNCHANGED <<heap, base, requires_grad, hooks, trace, call, exc, unedited,
                   output, passLog, stopper, obs, editor, rng, files, ev, nest,
                   script>>

\* one batch of the loader: rc.add(batch["prompt_in_context.delta.<layer>"])
RandomFitBatch ==
    /\ pc = "rfit"
    /\ fit.batch < NumTrainBatches
    /\ rc' = rc \cup {fit.batch + 1}
    /\ fit' = [fit EXCEPT !.batch = @ + 1]
    /\ UNCHANGED <<pc, heap, base, requires_grad, hookVars, stopper, obs, editor,
                   rng, files, ev, nest, script>>

\* "self.mean[:] = rc.mean()" and "self.covariance[:] = rc.covariance()", then
\* the return; an assignment that cannot be broadcast raises and ends fit
RandomFitStore ==
    /\ pc = "rfit"
    /\ fit.batch = NumTrainBatches
    /\ LET m == Covariance_mean(rc)
           c == Covariance_covariance(rc)
       IN  IF ~SetItemOk(editor.mean, m)
           THEN /\ editor' = editor
                /\ outcome' = "fit_raised"
           ELSE IF ~SetItemOk(editor.covariance, c)
           THEN /\ editor' = [editor EXCEPT !.mean = SetItem(@, m)]
                /\ outcome' = "fit_raised"
           ELSE /\ editor' = [editor EXCEPT !.mean = SetItem(@, m),
                                            !.covariance = SetItem(@, c)]
                /\ outcome' = "fitted"
    /\ rc' = {}
    /\ fit' = NoFit
    /\ pc' = "idle"
    /\ UNCHANGED <<heap, base, requires_grad, hooks, trace, call, exc, unedited,
                   output, passLog, stopper, obs, rng, files, ev, nest, script>>

(* ------------------- apply_direction used directly -------------------- *)
\* A caller holds apply_direction objects on the same model and layer and
\* enters them with "with", one inside the other or the same one again.
\* nest.stack lists the entered objects, innermost last; nest.objs holds each
\* object's arguments and its _trace (0 for None).
Objects == {1, 2}
NoObject == [made |-> FALSE, trace |-> 0, directions |-> [b \in Rows |-> 0],
             token_ranges |-> [b \in Rows |-> <<0, 0>>], alpha |-> 0]
NoNest == [stack |-> <<>>, objs |-> [o \in Objects |-> NoObject]]

\* an id no installed hook has
FreshId == 1 + Len(hooks) + (IF hooks = <<>> THEN 0 ELSE hooks[Len(hooks)].id)

\* apply_direction(...) of an object not made yet, and __enter__: the hook is
\* registered and kept in _trace, whatever hooks the layer already has and
\* whatever _trace held
NestEnter(o, directions, range, alpha) ==
    /\ pc \in {"idle", "scope"}
    /\ Len(nest.stack) < MaxDepth
    /\ Len(hooks) < MaxDepth
    /\ LET obj == IF nest.objs[o].made THEN nest.objs[o]
                  ELSE [made |-> TRUE, trace |-> 0, directions |-> directions,
                        token_ranges |-> [b \in Rows |-> range], alpha |-> alpha]
           id == FreshId
       IN  /\ hooks' = Append(hooks, [id |-> id, directions |-> obj.directions,
                                      token_ranges |-> obj.token_ranges,
                                      alpha |-> obj.alpha])
           /\ nest' = [stack |-> Append(nest.stack, o),
                       objs |-> [nest.objs EXCEPT ![o] = [obj EXCEPT !.trace = id]]]
    /\ pc' = "scope"
    /\ outcome' = "none"
    /\ UNCHANGED <<heap, base, requires_grad, trace, call, exc, unedited, output,
                   passLog, fitVars, editor, rc, rng, files, ev, script>>

\* the model runs a forward pass of n positions inside the scopes
NestForward(n) ==
    /\ pc = "scope"
    /\ ~exc
    /\ passLog = <<>>
    /\ LayerForward(n)
    /\ UNCHANGED <<pc, heap, base, requires_grad, hooks, trace, call, exc,
                   outcome, fitVars, extVars>>

\* the innermost with statement ends: __exit__ asserts that _trace is set,
\* closes it and sets it to None; a failed assert propagates outwards
NestExit ==
    /\ pc = "scope"
    /\ LET o == nest.stack[Len(nest.stack)]
           rest == SubSeq(nest.stack, 1, Len(nest.stack) - 1)
           failed == nest.objs[o].trace = 0
           raised == exc \/ failed
       IN  /\ hooks' = IF failed THEN hooks
                       ELSE SelectSeq(hooks, LAMBDA h : h.id # nest.objs[o].trace)
           /\ IF rest = <<>>
              THEN /\ nest' = NoNest
                   /\ pc' = "idle"
                   /\ exc' = FALSE
                   /\ outcome' = IF raised THEN "raised" ELSE "returned"
              ELSE /\ nest' = [stack |-> rest,
                               objs |-> [nest.objs EXCEPT ![o].trace = 0]]
                   /\ pc' = "scope"
                   /\ exc' = raised
                   /\ outcome' = outcome
    /\ unedited' = NoTensor
    /\ output' = NoTensor
    /\ passLog' = <<>>
    /\ UNCHANGED <<heap, base, requires_grad, trace, call, fitVars, editor, rc,
                   rng, files, ev, script>>

\* a caller enters one of its apply_direction objects
NestEnterAny ==
    /\ pc \in {"idle", "scope"}
    /\ \E o \in Objects, attribute \in Attributes, alpha \in Alphas,
          range \in TokenRanges(MaxSeq) :
          NestEnter(o, LinearEditor_call(attribute), range, alpha)

\* a forward pass over a prompt inside the scopes
NestForwardAny ==
    /\ pc = "scope"
    /\ \E n \in {MaxSeq} : NestForward(n)

NextNest ==
    \/ NestEnterAny
    \/ NestForwardAny
    \/ NestExit

(* ----------------------------- persistence ----------------------------- *)
\* files is the weights file of the editor: the pickled state_dict, with the
\* class of the editor it came from and that editor's state when it was saved
\* (origin, kept for comparison; it is not part of the file).
NoFile == [saved |-> FALSE, kind |-> "none", keys |-> {},
           params |-> [n \in ParamNames |-> 0], mean |-> None,
           covariance |-> None,
           origin |-> [heap |-> [n \in ParamNames |-> 0], mean |-> None,
                       covariance |-> None]]

\* the keys of editor.state_dict(): the parameters of self.linear (named here
\* without the "linear." prefix) and the registered buffers
StateDictKeys ==
    IF editor.kind = "linear" THEN ParamNames ELSE {"mean", "covariance"}

\* torch.save(editor.state_dict(), editor_file): the present content of every
\* tensor of the state_dict is written
SaveWeights ==
    /\ pc = "idle"
    /\ files' = [saved |-> TRUE, kind |-> editor.kind, keys |-> StateDictKeys,
                 params |-> [n \in ParamNames |-> heap[state_dict[n]]],
                 mean |-> editor.mean, covariance |-> editor.covariance,
                 origin |-> [heap |-> heap, mean |-> editor.mean,
                             covariance |-> editor.covariance]]
    /\ outcome' = "saved"
    /\ UNCHANGED <<pc, heap, base, requires_grad, hooks, trace, call, exc,
                   unedited, output, passLog, fitVars, editor, rc, rng, ev, nest,
                   script>>

\* load_state_dict copies a saved tensor into the module's tensor of the same
\* name when the two have the same shape, and reports a size mismatch if not
LoadBuffer(buffer, saved) ==
    IF buffer.shape = saved.shape THEN [buffer EXCEPT !.val = saved.val]
                                  ELSE buffer

\* a later process makes a fresh editor of the file's class on the same layer
\* (fresh are the values nn.Linear starts with) and runs
\* "editor.load_state_dict(torch.load(weights_file))"; the fresh editor is the
\* program's editor from then on
LoadFresh(fresh) ==
    /\ pc = "idle"
    /\ files.saved
    /\ IF files.kind = "linear"
       THEN /\ heap' = [n \in ParamNames |->
                         IF n \in files.keys THEN files.params[n] ELSE fresh[n]]
            /\ editor' = LinearEditor_init
            /\ outcome' = "loaded"
       ELSE LET new == RandomEditor_init(None, None)
            IN  /\ heap' = heap
                /\ editor' = [new EXCEPT
                      !.mean = IF "mean" \in files.keys
                               THEN LoadBuffer(@, files.mean) ELSE @,
                      !.covariance = IF "covariance" \in files.keys
                                     THEN LoadBuffer(@, files.covariance) ELSE @]
                /\ outcome' = IF /\ new.mean.shape = files.mean.shape
                                 /\ new.covariance.shape = files.covariance.shape
                              THEN "loaded" ELSE "load_raised"
    /\ UNCHANGED <<pc, base, requires_grad, hooks, trace, call, exc, unedited,
                   output, passLog, fitVars, rc, rng, files, ev, nest, script>>

LoadFreshAny ==
    /\ pc = "idle"
    /\ \E fresh \in [ParamNames -> ParamVals] : LoadFresh(fresh)

NextPersist ==
    \/ RandomFitBegin
    \/ RandomFitBatch
    \/ RandomFitStore
    \/ SaveWeights
    \/ LoadFreshAny

(* --------------------------- Editor.evaluate --------------------------- *)
\* A dataset of n samples is <<1, ..., n>>.  What generate returns for a
\* sample (sequences and scores, from which the top tokens, top scores and
\* generations are computed) is a function of the sample and of the edits the
\* layer's hooks make to its row: the record [sample, edits].

\* states of torch's global random generator
RngStates == {0, 1, 2}

\* the four target scores of a result
TargetKeys == {"before_target_mediated_score", "before_target_unmediated_score",
               "after_target_mediated_score", "after_target_unmediated_score"}

NoEval == [dataset |-> <<>>, targets |-> FALSE, batch_size |-> 0, alpha |-> 0,
           pos |-> 0, batch |-> <<>>, before |-> <<>>, after |-> <<>>,
           results |-> <<>>, hist |-> <<>>]

\* the editor's directions for a batch, one per row (rows are 0-based); the
\* attribute representation of sample s is s
EvalDirections(batch) ==
    [b \in 0..(Len(batch) - 1) |-> heap["weight"] * batch[b + 1] + heap["bias"]]

\* model.generate(**inputs, **generate_kwargs) on a batch with the hooks hs on
\* the layer: greedy decoding (do_sample=False), one output per row
GenerateOutput(batch, hs) ==
    [k \in 1..Len(batch) |->
        [sample |-> batch[k],
         edits |-> [i \in 1..Len(hs) |-> hs[i].alpha * hs[i].directions[k - 1]]]]

\* faulty variant of CloseTrace: the hook is left on the layer
CloseTrace_Keep(hs, id) == hs

\* Trace.close(): the hook registered by the trace is removed
CloseTrace(hs, id) == SelectSeq(hs, LAMBDA h : h.id # id)

\* faulty variant of FlattenIndex: every result takes the batch's first row
FlattenIndex_First(bi) == 1

\* "vs[bi]" in the loop "for bi in range(current_batch_size)" (1-based here)
FlattenIndex(bi) == bi

\* the results of one batch, one EditorEvaluationResult per row, in order
BatchResults ==
    [bi \in 1..Len(ev.batch) |->
        [sample |-> ev.batch[FlattenIndex(bi)],
         before |-> ev.before[FlattenIndex(bi)],
         after |-> ev.after[FlattenIndex(bi)],
         scores |-> IF ev.targets THEN TargetKeys ELSE {}]]

\* evaluate up to the loop over batches: eval mode, include_target_probs,
\* results = []
EvaluateBegin(n, batch_size, targets, alpha) ==
    /\ pc = "idle"
    /\ ev' = [NoEval EXCEPT !.dataset = [k \in 1..n |-> k], !.targets = targets,
                            !.batch_size = batch_size, !.alpha = alpha,
                            !.hist = IF Len(ev.hist) = 1 THEN ev.hist ELSE <<>>]
    /\ pc' = "ev_loop"
    /\ outcome' = "none"
    /\ UNCHANGED <<heap, base, requires_grad, hooks, trace, call, exc, unedited,
                   output, passLog, fitVars, editor, rc, rng, files, nest, script>>

\* the next batch of the loader and outputs_before = self.mt.model.generate(...)
EvalBefore ==
    /\ pc = "ev_loop"
    /\ ev.pos < Len(ev.dataset)
    /\ LET last == IF ev.pos + ev.batch_size < Len(ev.dataset)
                   THEN ev.pos + ev.batch_size ELSE Len(ev.dataset)
           batch == SubSeq(ev.dataset, ev.pos + 1, last)
       IN  ev' = [ev EXCEPT !.batch = batch,
                            !.before = GenerateOutput(batch, hooks)]
    /\ pc' = "ev_apply"
    /\ UNCHANGED <<heap, base, requires_grad, hookVars, fitVars, editor, rc, rng,
                   files, nest, script>>

\* "with apply(self, alpha=alpha, device=device) as edited_mt" and
\* edited_mt.model.generate up to apply_direction.__enter__: the editor is
\* called for the directions and the hook is installed; an editor without
\* __call__ raises NotImplementedError, which ends evaluate
EvalApply ==
    /\ pc = "ev_apply"
    /\ IF editor.kind = "linear"
       THEN LET id == Len(hooks) + 1
            IN  /\ hooks' = Append(hooks,
                      [id |-> id, directions |-> EvalDirections(ev.batch),
                       token_ranges |-> [b \in 0..(Len(ev.batch) - 1) |-> <<0, 1>>],
                       alpha |-> ev.alpha])
                /\ trace' = id
                /\ pc' = "ev_body"
                /\ UNCHANGED <<ev, outcome>>
       ELSE /\ ev' = [NoEval EXCEPT !.dataset = ev.dataset, !.targets = ev.targets,
                         !.batch_size = ev.batch_size, !.alpha = ev.alpha,
                         !.hist = Append(ev.hist, [how |-> "editor raised",
                                                   results |-> <<>>])]
            /\ pc' = "idle"
            /\ outcome' = "raised"
            /\ UNCHANGED <<hooks, trace>>
    /\ UNCHANGED <<heap, base, requires_grad, call, exc, unedited, output,
                   passLog, fitVars, editor, rc, rng, files, nest, script>>

\* model.generate inside the apply_direction scope: it returns outputs_after
\* or raises
EvalAfter(raises) ==
    /\ pc = "ev_body"
    /\ ev' = IF raises THEN ev
             ELSE [ev EXCEPT !.after = GenerateOutput(ev.batch, hooks)]
    /\ exc' = raises
    /\ pc' = "ev_exit"
    /\ UNCHANGED <<heap, base, requires_grad, hooks, trace, call, unedited,
                   output, passLog, outcome, fitVars, editor, rc, rng, files,
                   nest, script>>

\* apply_direction.__exit__ at the end of the scope; an exception then
\* propagates out of evaluate
EvalExit ==
    /\ pc = "ev_exit"
    /\ hooks' = CloseTrace(hooks, trace)
    /\ trace' = 0
    /\ exc' = FALSE
    /\ IF exc
       THEN /\ ev' = [NoEval EXCEPT !.dataset = ev.dataset, !.targets = ev.targets,
                         !.batch_size = ev.batch_size, !.alpha = ev.alpha,
                         !.hist = Append(ev.hist, [how |-> "model raised",
                                                   results |-> <<>>])]
            /\ pc' = "idle"
            /\ outcome' = "raised"
       ELSE /\ ev' = ev
            /\ pc' = "ev_flatten"
            /\ outcome' = outcome
    /\ UNCHANGED <<heap, base, requires_grad, call, unedited, output, passLog,
                   fitVars, editor, rc, rng, files, nest, script>>

\* batched_results and the loop that appends one result per row
EvalFlatten ==
    /\ pc = "ev_flatten"
    /\ ev' = [ev EXCEPT !.results = @ \o BatchResults,
                        !.pos = @ + Len(ev.batch),
                        !.batch = <<>>, !.before = <<>>, !.after = <<>>]
    /\ pc' = "ev_loop"
    /\ UNCHANGED <<heap, base, requires_grad, hookVars, fitVars, editor, rc, rng,
                   files, nest, script>>

\* the loader is exhausted
EvalLoopEnd ==
    /\ pc = "ev_loop"
    /\ ev.pos >= Len(ev.dataset)
    /\ pc' = "ev_return"
    /\ UNCHANGED <<heap, base, requires_grad, hookVars, fitVars, extVars>>

\* return EditorEvaluateRun(results)
EvalReturn ==
    /\ pc = "ev_return"
    /\ ev' = [NoEval EXCEPT !.dataset = ev.dataset, !.targets = ev.targets,
                 !.batch_size = ev.batch_size, !.alpha = ev.alpha,
                 !.hist = Append(ev.hist, [how |-> "returned", results |-> ev.results])]
    /\ pc' = "idle"
    /\ outcome' = "evaluated"
    /\ UNCHANGED <<heap, base, requires_grad, hooks, trace, call, exc, unedited,
                   output, passLog, fitVars, editor, rc, rng, files, nest, script>>

\* a caller runs Editor.evaluate; a second call repeats the first one's
\* arguments
EvaluateCall ==
    /\ pc = "idle"
    /\ \E n \in 0..MaxSamples, batch_size \in 1..MaxBatchSize,
          targets \in BOOLEAN, alpha \in Alphas :
          /\ Len(ev.hist) = 1 =>
                /\ n = Len(ev.dataset) /\ batch_size = ev.batch_size
                /\ targets = ev.targets /\ alpha = ev.alpha
          /\ EvaluateBegin(n, batch_size, targets, alpha)

EvalAfterAny ==
    /\ pc = "ev_body"
    /\ \E raises \in BOOLEAN : EvalAfter(raises)

\* RandomEditor.forward called as a method: the distribution needs a square
\* covariance matrix; a sample advances the global generator
RandomForward ==
    /\ pc = "idle"
    /\ editor.kind = "random"
    /\ IF Len(editor.covariance.shape) = 2
       THEN /\ rng' = (rng + 1) % Cardinality(RngStates)
            /\ outcome' = "sampled"
       ELSE /\ rng' = rng
            /\ outcome' = "raised"
    /\ UNCHANGED <<pc, heap, base, requires_grad, hooks, trace, call, exc,
                   unedited, output, passLog, fitVars, editor, rc, files, ev,
                   nest, script>>

NextEval ==
    \/ EvaluateCall
    \/ EvalBefore
    \/ EvalApply
    \/ EvalAfterAny
    \/ EvalExit
    \/ EvalFlatten
    \/ EvalLoopEnd
    \/ EvalReturn
    \/ RandomForward

(* ------------------------------- scripts ------------------------------- *)
\* scripts/train_editors.py, scripts/classify.py and
\* scripts/generate_directions.py, each run as a program of its own.
\* script.stage is "none" (no script runs), "setup", "loop" or "done".

\* values a caller passes as --editor-type
EditorTypes == {"linear", "mlp", "biaffine", "random", "identity"}
\* choices=("linear", "mlp", "biaffine") of --editor-type
EditorTypeChoices == {"linear", "mlp", "biaffine"}
\* the layers the script loops over (args.layers), in order
ScriptLayers == <<0, 1, 2>>
LayerSet == {ScriptLayers[i] : i \in DOMAIN ScriptLayers}

NoScript == [name |-> "none", stage |-> "none", type |-> "none",
             expensive |-> FALSE, present |-> {}, cached |-> {}, index |-> 0,
             did |-> [l \in LayerSet |-> "none"], result |-> "none"]

\* faulty variant of ParseAccepts: the option has no choices
ParseAccepts_Any(type) == type = type

\* parser.parse_args(): a value outside the option's choices is a usage error
ParseAccepts(type) == type \in EditorTypeChoices

\* train_editors.py is started with --editor-type type: the arguments are
\* parsed and, when they are accepted, main(args) is called
TrainStart(type) ==
    /\ script.stage = "none"
    /\ script' = IF ParseAccepts(type)
                 THEN [NoScript EXCEPT !.name = "train_editors", !.type = type,
                                       !.stage = "setup"]
                 ELSE [NoScript EXCEPT !.name = "train_editors", !.type = type,
                                       !.stage = "done", !.result = "usage_error"]
    /\ UNCHANGED <<pc, heap, base, requires_grad, hookVars, fitVars, editor, rc,
                   rng, files, ev, nest>>

\* main up to the loops: seed, results dir, load_model, load_dataset,
\* editor_inputs_from_dataset over every layer, the train/test split
TrainSetup ==
    /\ script.name = "train_editors"
    /\ script.stage = "setup"
    /\ script' = [script EXCEPT !.expensive = TRUE, !.stage = "loop"]
    /\ UNCHANGED <<pc, heap, base, requires_grad, hookVars, fitVars, editor, rc,
                   rng, files, ev, nest>>

\* "for editor_type in args.editor_types": the parser defines --editor-type
\* only, so the namespace has no attribute editor_types and main raises
TrainLoop ==
    /\ script.name = "train_editors"
    /\ script.stage = "loop"
    /\ script' = [script EXCEPT !.stage = "done", !.result = "raised"]
    /\ UNCHANGED <<pc, heap, base, requires_grad, hookVars, fitVars, editor, rc,
                   rng, files, ev, nest>>

\* faulty variant of AfterSkip: the loop is left at the first missing editor
AfterSkip_Break(i) == Len(ScriptLayers)

\* "continue": the loop goes on with the next layer
AfterSkip(i) == i + 1

\* classify.py or generate_directions.py is started; present are the layers
\* whose weights file exists (classify.py) or for which load_editor returns an
\* editor (generate_directions.py) and cached those whose results exist.
\* classify.py raises ValueError when the editors directory does not exist;
\* otherwise the model and the datasets are loaded
ConsumerStart(name, dirExists, present, cached) ==
    /\ script.stage = "none"
    /\ script' = IF name = "classify" /\ ~dirExists
                 THEN [NoScript EXCEPT !.name = name, !.stage = "done",
                                       !.result = "raised"]
                 ELSE [NoScript EXCEPT !.name = name, !.stage = "loop",
                                       !.present = present, !.cached = cached,
                                       !.expensive = TRUE]
    /\ UNCHANGED <<pc, heap, base, requires_grad, hookVars, fitVars, editor, rc,
                   rng, files, ev, nest>>

\* what one iteration of "for layer in layers" does with layer.
\* classify.py: no weights file -> skip; else the editor is loaded and each
\* split is classified unless its results file exists.
\* generate_directions.py: dump exists -> skip; load_editor gives None -> skip;
\* else the directions are generated and dumped.
LayerStep(name, layer) ==
    IF name = "classify"
    THEN IF layer \notin script.present THEN "skipped"
         ELSE IF layer \in script.cached THEN "cached" ELSE "processed"
    ELSE IF layer \in script.cached THEN "cached"
         ELSE IF layer \notin script.present THEN "skipped" ELSE "processed"

\* one iteration of the loop over layers; processing a layer may raise (a
\* data error propagates out of main)
ConsumerLayer(raises) ==
    /\ script.name \in {"classify", "generate_directions"}
    /\ script.stage = "loop"
    /\ script.index < Len(ScriptLayers)
    /\ LET layer == ScriptLayers[script.index + 1]
           what == LayerStep(script.name, layer)
       IN  IF what = "skipped"
           THEN script' = [script EXCEPT !.did[layer] = what,
                                         !.index = AfterSkip(@)]
           ELSE IF what = "processed" /\ raises
           THEN script' = [script EXCEPT !.stage = "done", !.result = "raised"]
           ELSE script' = [script EXCEPT !.did[layer] = what, !.index = @ + 1]
    /\ UNCHANGED <<pc, heap, base, requires_grad, hookVars, fitVars, editor, rc,
                   rng, files, ev, nest>>

\* the loop over layers is exhausted: main returns
ConsumerEnd ==
    /\ script.name \in {"classify", "generate_directions"}
    /\ script.stage = "loop"
    /\ script.index >= Len(ScriptLayers)
    /\ script' = [script EXCEPT !.stage = "done", !.result = "returned"]
    /\ UNCHANGED <<pc, heap, base, requires_grad, hookVars, fitVars, editor, rc,
                   rng, files, ev, nest>>

\* the process ends
ScriptExit ==
    /\ script.stage = "done"
    /\ script' = NoScript
    /\ UNCHANGED <<pc, heap, base, requires_grad, hookVars, fitVars, editor, rc,
                   rng, files, ev, nest>>

TrainStartAny ==
    /\ script.stage = "none"
    /\ \E type \in EditorTypes : TrainStart(type)

ConsumerStartAny ==
    /\ script.stage = "none"
    /\ \E name \in {"classify", "generate_directions"}, dirExists \in BOOLEAN,
          present \in SUBSET LayerSet, cached \in SUBSET LayerSet :
          ConsumerStart(name, dirExists, present, cached)

ConsumerLayerAny ==
    /\ script.stage = "loop"
    /\ \E raises \in BOOLEAN : ConsumerLayer(raises)

NextScript ==
    \/ TrainStartAny
    \/ TrainSetup
    \/ TrainLoop
    \/ ConsumerStartAny
    \/ ConsumerLayerAny
    \/ ConsumerEnd
    \/ ScriptExit

(* ------------------------------ behaviour ------------------------------ *)
\* the base model's parameter values when the program starts
BaseInit == [p \in BaseParams |-> 0]

\* the editor objects a program constructs
Editors ==
    {LinearEditor_init} \cup
    {RandomEditor_init(m, c) : m \in {None, GivenMean},
                               c \in {None, GivenCovariance}}

Init ==
    /\ pc = "idle"
    /\ editor \in Editors
    /\ heap \in IF editor.kind = "linear" THEN [ParamNames -> ParamVals]
                                          ELSE {[n \in ParamNames |-> 0]}
    /\ base = BaseInit
    /\ rc = {}
    /\ rng = 0
    /\ files = NoFile
    /\ ev = NoEval
    /\ nest = NoNest
    /\ script = NoScript
    /\ requires_grad \in {[p \in BaseParams |-> v] : v \in BOOLEAN}
    /\ hooks = <<>>
    /\ trace = 0
    /\ call = NoCall
    /\ exc = FALSE
    /\ unedited = NoTensor
    /\ output = NoTensor
    /\ passLog = <<>>
    /\ outcome = "none"
    /\ fit = NoFit
    /\ stopper = NoStopper
    /\ obs = NoObs

\* _run_edited_model with an editor of a class that does not override
\* Editor.__call__ (RandomEditor defines forward only): "self.editor(...)"
\* raises NotImplementedError before apply_direction is entered
EditorCallRaises ==
    /\ pc = "idle"
    /\ editor.kind = "random"
    /\ outcome' = "raised"
    /\ UNCHANGED <<pc, heap, base, requires_grad, hooks, trace, call, exc,
                   unedited, output, passLog, fitVars, extVars>>

\* a caller runs EditedModel.forward or EditedModel.generate on a batch
EditedModelCall ==
    /\ pc = "idle"
    /\ editor.kind = "linear"
    /\ \E generate \in BOOLEAN, n \in 1..MaxSeq, alpha \in Alphas,
          maxNew \in 1..MaxNewTokens, attribute \in Attributes,
          layer \in RequestedLayers :
          \E ranges \in [Rows -> TokenRanges(n)] :
             RunEditedModel(layer, generate, n, ranges, attribute, alpha, maxNew)

\* a caller runs Editor.fit
FitCall ==
    /\ pc = "idle"
    /\ editor.kind = "linear"
    /\ \E max_epochs \in {0, MaxEpochs}, patience \in 1..MaxPatience :
          FitBegin(max_epochs, patience)

Next ==
    \/ EditedModelCall
    \/ ModelForward
    \/ GeneratePass
    \/ GenerateDone
    \/ ModelRaises
    \/ ExitScope
    \/ FitCall
    \/ TrainLoss
    \/ Backward
    \/ OptimizerStepAny
    \/ BeginValidation
    \/ \E loss \in 1..MaxLoss : ValBatch(loss)
    \/ EpochEnd
    \/ LoadBest
    \/ FitReturn
    \/ EditorCallRaises
    \/ RandomFitBegin
    \/ RandomFitBatch
    \/ RandomFitStore

Spec == Init /\ [][Next]_vars

\* the steps of a running fit: Python runs the loop on, statement by statement
FitStep ==
    \/ TrainLoss
    \/ Backward
    \/ OptimizerStepAny
    \/ BeginValidation
    \/ \E loss \in 1..MaxLoss : ValBatch(loss)
    \/ EpochEnd
    \/ LoadBest
    \/ FitReturn
    \/ RandomFitBatch
    \/ RandomFitStore

FairSpec == Spec /\ WF_vars(FitStep)

\* callers that use apply_direction directly
NestSpec == Init /\ [][NextNest]_vars

\* callers that run Editor.evaluate
EvalSpec == Init /\ [][NextEval]_vars

\* programs that fit, save and load editors
PersistSpec == Init /\ [][NextPersist]_vars

\* runs of the scripts
ScriptSpec == Init /\ [][NextScript]_vars

(* ------------------------------- claims -------------------------------- *)
InFitLoop == pc \in {"train", "backward", "step", "val"}
InFit == InFitLoop \/ pc \in {"restore", "fit_return"}
\* a forward pass of the running call has gone through the hooked layer
PassDone == pc \in {"body", "exit"} /\ passLog # <<>>
\* positions of row b inside its token range
InRange(b, p) == call.token_ranges[b][1] <= p /\ p < call.token_ranges[b][2]

\* C1: whenever the hooked layer's output has sequence dimension 1, the hook
\* returns it unchanged, whatever alpha, directions and token ranges are.
C1_NoOpGuard ==
    (PassDone /\ SeqDim(unedited) = 1) => output = unedited

\* C1 witness: a one-position pass whose position 0 lies in row 0's range,
\* with a non-zero step, so that an unguarded edit would have changed it
C1_Witness ==
    /\ PassDone /\ SeqDim(unedited) = 1 /\ hooks # <<>>
    /\ Len(passLog) > 1
    /\ InRange(0, 0)
    /\ call.alpha * call.directions[0] # 0

\* C2: on a pass with sequence dimension > 1, every position of a row outside
\* that row's token range, and the rest of the output tuple, are as unedited.
C2_EditLocality ==
    (PassDone /\ SeqDim(unedited) > 1) =>
        /\ \A b \in Rows : \A p \in DOMAIN unedited[1][b] :
              ~InRange(b, p) => output[1][b][p] = unedited[1][b][p]
        /\ DOMAIN output[1] = DOMAIN unedited[1]
        /\ \A b \in Rows : DOMAIN output[1][b] = DOMAIN unedited[1][b]
        /\ output[2] = unedited[2]

\* C2 witness: an edited pass where row 0 changed inside its range, has a
\* position right after the range, and row 1 has a different range
C2_Witness ==
    /\ PassDone /\ SeqDim(unedited) > 1
    /\ call.token_ranges[0][2] < SeqDim(unedited)
    /\ call.token_ranges[0] # call.token_ranges[1]
    /\ call.alpha * call.directions[0] # 0
    /\ output[1][0][call.token_ranges[0][1]] # unedited[1][0][call.token_ranges[0][1]]

\* C3: on a pass with sequence dimension > 1, every position of row b inside
\* its token range equals the unedited value plus alpha * directions[b], once.
C3_EditValue ==
    (PassDone /\ SeqDim(unedited) > 1) =>
        \A b \in Rows : \A p \in DOMAIN unedited[1][b] :
            InRange(b, p) =>
                output[1][b][p] = unedited[1][b][p] + call.alpha * call.directions[b]

\* C3 witness: an edited pass with alpha 2, different non-zero directions per
\* row and a range of more than one position
C3_Witness ==
    /\ PassDone /\ SeqDim(unedited) > 1
    /\ call.alpha = 2
    /\ call.directions[0] # 0 /\ call.directions[1] # call.directions[0]
    /\ call.token_ranges[1][2] - call.token_ranges[1][1] > 1

C5_EditOnFirstPassOnly ==
    (PassDone /\ call.generate) =>
        /\ Len(passLog) = 1 =>
              /\ passLog[1].seq = call.promptLen
              /\ \A b \in Rows : \A p \in DOMAIN unedited[1][b] :
                    InRange(b, p) =>
                        output[1][b][p] =
                            unedited[1][b][p] + call.alpha * call.directions[b]
        /\ Len(passLog) > 1 => output = unedited

\* C6: when fit returns, the parameters are those of the end of the epoch with
\* the lowest validation loss.
C6_RestoresBest ==
    (pc = "fit_return") => heap = obs.minParams

\* C7: at the end of an epoch the patience counter becomes zero exactly when
\* the epoch's validation loss is below every earlier one; an epoch runs only
\* while fewer than patience epochs in a row have failed to improve, and fit
\* breaks out at the first epoch that makes it patience in a row.
C7_HaltingRule ==
    /\ [](InFitLoop => obs.badRun < stopper.patience)
    /\ []((InFit /\ obs.how = "early") => obs.badRun = stopper.patience)
    /\ []((InFit /\ obs.how = "max") => obs.badRun < stopper.patience)
    /\ [][(pc = "val" /\ pc' # "val") =>
            /\ (stopper'.num_bad = 0) <=> (fit.val_loss < obs.minLoss)
            /\ (stopper'.num_bad # 0) => stopper'.num_bad = stopper.num_bad + 1]_vars

\* C7 witness: fit has broken out after two epochs in a row without improvement
C7_Witness ==
    /\ pc = "restore" /\ obs.how = "early"
    /\ stopper.patience = 2 /\ obs.badRun = 2
    /\ fit.epoch = 4 /\ fit.epoch < fit.max_epochs + 1

\* C8: epoch 0 takes no backward pass and no optimizer step and leaves the
\* parameters as they were; from epoch 1 on every train batch takes one
\* backward pass and then one optimizer step; validation takes none.
C8_DryRunEpoch ==
    /\ []((InFitLoop /\ fit.epoch = 0) =>
            obs.steps = 0 /\ obs.backwards = 0 /\ heap = obs.init)
    /\ []((InFitLoop /\ fit.epoch > 0) =>
            /\ pc = "train" => obs.backwards = fit.batch /\ obs.steps = fit.batch
            /\ pc = "backward" => obs.backwards = fit.batch /\ obs.steps = fit.batch
            /\ pc = "step" => /\ obs.backwards = fit.batch + 1
                               /\ obs.steps = fit.batch
                               /\ fit.grad = "set"
            /\ pc = "val" => /\ obs.backwards = NumTrainBatches
                              /\ obs.steps = NumTrainBatches)
    /\ [][(pc = "val") => heap' = heap]_vars
    /\ [][(pc = "val" /\ pc' = "val") => obs' = obs]_vars

\* C8 witness: the validation pass of an epoch after the dry run, the
\* parameters changed by the epoch's steps
C8_Witness ==
    /\ pc = "val" /\ fit.epoch = 1 /\ fit.batch = NumValBatches
    /\ obs.steps = NumTrainBatches /\ heap # obs.init

\* the phase of the training state machine the program is in
Phase ==
    CASE pc = "idle" -> "Idle"
      [] InFitLoop -> "Training"
      [] pc = "restore" /\ obs.how = "early" -> "EarlyStopped"
      [] pc = "restore" /\ obs.how = "max" -> "MaxEpochsReached"
      [] pc = "fit_return" -> "Finalized"
      [] OTHER -> "Call"

PhaseOrder ==
    {<<"Idle", "Training">>, <<"Training", "EarlyStopped">>,
     <<"Training", "MaxEpochsReached">>, <<"EarlyStopped", "Finalized">>,
     <<"MaxEpochsReached", "Finalized">>, <<"Finalized", "Idle">>,
     <<"Idle", "Call">>, <<"Call", "Idle">>}

C10_BaseModelFrozen ==
    (InFit \/ outcome = "fitted") => \A p \in BaseParams : ~requires_grad[p]

\* C11: training updates the editor only.  The base model's parameter values
\* are never changed, by no step of Editor.fit and by no other operation; an
\* optimizer step changes nothing but the editor's parameters; and a step of
\* RandomEditor.fit changes, of the editor and the model, nothing but the
\* editor's mean and covariance buffers.
C11_OnlyEditorUpdated ==
    /\ [](base = BaseInit)
    /\ [][(pc = "step") => UNCHANGED <<base, requires_grad, editor, hooks>>]_vars
    /\ [][(pc = "rfit") =>
            /\ UNCHANGED <<base, heap, requires_grad, hooks>>
            /\ editor'.kind = editor.kind]_vars

\* C11 witness: a fit that ran optimizer steps on an editor whose base model
\* has gradients enabled is about to return, the editor's parameters changed
C11_Witness ==
    /\ pc = "fit_return" /\ fit.epoch > 0 /\ heap # obs.init
    /\ \A p \in BaseParams : requires_grad[p]
    /\ base = BaseInit

\* C12: in every reachable state, nested scopes and re-entered objects
\* included, the layer has at most one direction hook installed.
C12_OneHookPerLayer == Len(hooks) <= 1

\* C13: when the requested layer does not exist on the model, the call fails
\* with a configuration error as apply_direction is entered: no hook is
\* installed, no forward pass runs, and the model and the editor are as before.
C13_MissingLayerFails ==
    /\ []((outcome = "config_error") =>
            /\ pc = "idle" /\ hooks = <<>> /\ trace = 0
            /\ passLog = <<>> /\ unedited = NoTensor /\ output = NoTensor)
    /\ [][(outcome' = "config_error") =>
            UNCHANGED <<hooks, trace, base, heap, requires_grad, editor>>]_vars
    /\ [][(pc = "idle" /\ pc' = "body") => hooks' # <<>>]_vars

\* C13 witness: a call on a layer the model does not have has just failed
C13_Witness ==
    /\ outcome = "config_error" /\ pc = "idle" /\ hooks = <<>>
    /\ editor.kind = "linear" /\ heap["weight"] # 0

\* C14: train_editors.py started with an editor type outside the ones it
\* offers ends with a usage error before the model is loaded, the dataset
\* precomputed or an editor fitted, and takes no further step (no retry).
C14_UnsupportedTypeFailsFast ==
    /\ []((script.name = "train_editors" /\ script.type \notin EditorTypeChoices)
            => /\ script.stage = "done"
               /\ script.result = "usage_error"
               /\ ~script.expensive)
    /\ [][(script.result = "usage_error") => script' = NoScript]_vars

\* C14 witness: the script was given the type "random" and has ended
C14_Witness ==
    /\ script.name = "train_editors" /\ script.type = "random"
    /\ script.stage = "done" /\ ~script.expensive

\* C15: a layer without a trained editor is skipped without an error and the
\* loop goes on with the next layer; a run that returns has handled every
\* layer (skipped the missing ones, processed the others); the missing
\* editors directory of classify.py is a raised error instead, before any
\* layer is handled.
C15_MissingLayerSkipped ==
    /\ [][(/\ script.stage = "loop" /\ script.index < Len(ScriptLayers)
            /\ script.name \in {"classify", "generate_directions"}
            /\ ScriptLayers[script.index + 1] \notin script.present \cup script.cached)
           => /\ script'.stage = "loop"
              /\ script'.result = "none"
              /\ script'.index = script.index + 1
              /\ script'.did[ScriptLayers[script.index + 1]] = "skipped"]_vars
    /\ []((script.result = "returned") =>
            \A l \in LayerSet : script.did[l] = LayerStep(script.name, l))
    /\ []((script.result = "raised" /\ script.name = "classify"
             /\ ~script.expensive) =>
            \A l \in LayerSet : script.did[l] = "none")

\* C15 witness: classify.py has returned after skipping its first layer and
\* processing the other two
C15_Witness ==
    /\ script.name = "classify" /\ script.result = "returned"
    /\ script.did[0] = "skipped"
    /\ script.did[1] = "processed" /\ script.did[2] = "processed"

\* an Editor.evaluate call is running
InEvaluate ==
    pc \in {"ev_loop", "ev_apply", "ev_body", "ev_exit", "ev_flatten", "ev_return"}

\* C16: evaluate returns one result per sample of the dataset, in dataset
\* order across batches and through a last partial batch; a result's before
\* and after outputs are those of its own sample; all four target scores are
\* set in every result when the dataset has targets and in none when not.
C16_OneResultPerSample ==
    /\ InEvaluate =>
          /\ Len(ev.results) = ev.pos
          /\ \A k \in 1..Len(ev.results) :
                /\ ev.results[k].sample = ev.dataset[k]
                /\ ev.results[k].before.sample = ev.dataset[k]
                /\ ev.results[k].after.sample = ev.dataset[k]
                /\ ev.results[k].scores = (IF ev.targets THEN TargetKeys ELSE {})
    /\ (pc = "ev_return") => Len(ev.results) = Len(ev.dataset)

\* C16 witness: evaluate is about to return the results of three samples
\* taken in batches of two, the last batch partial, with target scores
C16_Witness ==
    /\ pc = "ev_return" /\ Len(ev.dataset) = 3 /\ ev.batch_size = 2
    /\ ev.targets /\ Len(ev.results) = 3
    /\ ev.results[3].after.edits # ev.results[3].before.edits

\* C17: two calls of evaluate on the same dataset with the same arguments and
\* the same editor, linear or random, and with no failure of the base model,
\* both return results, and the same ones.
C17_EvaluateDeterministic ==
    (/\ Len(ev.hist) = 2
     /\ \A i \in 1..2 : ev.hist[i].how # "model raised") =>
        /\ \A i \in 1..2 : ev.hist[i].how = "returned"
        /\ ev.hist[1].results = ev.hist[2].results

\* C18: the state of a trained editor saved to a file and loaded into a fresh
\* editor of the same class and layer loads without an error and gives an
\* editor with the state of the saved one: the same directions for every attribute
\* (linear), the same mean and covariance of the sampling distribution (random).
C18_RoundTrip ==
    (/\ files.saved /\ outcome \in {"loaded", "load_raised"}
     /\ files.kind = "random" => files.origin.mean.val[1] = "mean") =>
        /\ outcome = "loaded"
        /\ editor.kind = files.kind
        /\ editor.kind = "linear" =>
              \A attribute \in Attributes : \A b \in Rows :
                  LinearEditor_call(attribute)[b] =
                      files.origin.heap["weight"] * attribute[b]
                          + files.origin.heap["bias"]
        /\ editor.kind = "random" =>
              /\ editor.mean = files.origin.mean
              /\ editor.covariance = files.origin.covariance

\* the batches of the train loader RandomEditor.fit goes through
TrainBatches == 1..NumTrainBatches

\* C19: RandomEditor.fit on an editor constructed with the default mean and
\* covariance completes without an error and leaves the sample mean of the
\* entity deltas in the mean buffer and their sample covariance in the
\* covariance buffer.
C19_MomentMatching ==
    (/\ editor.kind = "random" /\ editor.defaults
     /\ pc = "idle" /\ outcome \in {"fitted", "fit_raised"}) =>
        /\ outcome = "fitted"
        /\ editor.mean = Covariance_mean(TrainBatches)
        /\ editor.covariance = Covariance_covariance(TrainBatches)

\* C20: in evaluate the "before" generation of every batch runs with no hook
\* on the layer and is over before the hook is installed; the "after"
\* generation runs with exactly one hook, the one made from the editor's
\* directions for the batch and the call's alpha; no hook is installed between
\* batches, after evaluate returns or after it raises; so no "before" output,
\* of any batch, carries an edit.
C20_BeforeRunsUnhooked ==
    /\ []((pc \in {"idle", "ev_loop", "ev_apply", "ev_flatten", "ev_return"}) =>
            (hooks = <<>> /\ trace = 0))
    /\ []((pc \in {"ev_body", "ev_exit"}) =>
            /\ Len(hooks) = 1 /\ hooks[1].id = trace
            /\ hooks[1].directions = EvalDirections(ev.batch)
            /\ hooks[1].alpha = ev.alpha)
    /\ [](InEvaluate =>
            /\ \A k \in DOMAIN ev.before : ev.before[k].edits = <<>>
            /\ \A k \in DOMAIN ev.results : ev.results[k].before.edits = <<>>
            /\ \A k \in DOMAIN ev.after :
                  ev.after[k].edits = <<ev.alpha * EvalDirections(ev.batch)[k - 1]>>)
    /\ [][(hooks = <<>> /\ hooks' # <<>>) =>
            /\ pc = "ev_apply"
            /\ ev.batch # <<>> /\ Len(ev.before) = Len(ev.batch)
            /\ ev'.before = ev.before]_vars

\* C20 witness: evaluate is about to return after three batches whose "after"
\* outputs carry a non-zero edit
C20_Witness ==
    /\ pc = "ev_return" /\ Len(ev.dataset) = 3 /\ ev.batch_size = 1
    /\ hooks = <<>>
    /\ \A k \in 1..3 : /\ ev.results[k].after.edits[1] # 0
                         /\ ev.results[k].before.edits = <<>>
====
